---- MODULE Spec2Model ----
(***************************************************************************)
(* Client-side state synchronisation of the portfolio page: the works      *)
(* array of main.js, the main gallery and the modal gallery of dom.js, the *)
(* URL's category parameter with the session history, the modal with its   *)
(* two steps, the upload form and the create / delete requests in flight.  *)
(*                                                                         *)
(* One action is one event handler run to its next suspension point (an    *)
(* awaited network request) or one continuation run to its end: the page   *)
(* is single-threaded, so nothing interleaves inside an action.            *)
(*                                                                         *)
(* Strings that the code transforms (category names, slugs, URL values,    *)
(* titles) are sequences of one-character strings.  The empty sequence     *)
(* stands for both "" and an absent value: the code tests them with        *)
(* truthiness only.                                                        *)
(***************************************************************************)
EXTENDS Integers, Sequences, FiniteSets, TLC

(***************************************************************************)
(* Bounds of the model.                                                    *)
(***************************************************************************)
\* works returned by the initial GET /works
MaxFetched == 1
\* largest work id the backend hands out (fetched and created works)
MaxId == 2
\* entries of the session history
MaxHist == 2
\* GET /categories requests in flight at once
MaxCatLoads == 1
\* submit events of #upload-form the handler's guards turn down
MaxSuppressed == 1
\* length of the title a paste may leave in the title field
MaxTitle == 1
\* works GET /works answers with in a visitor's session
MaxVisitorWorks == 2
\* entries of the session history in a visitor's session
MaxVisitorHist == 4

(***************************************************************************)
(* Characters and strings.                                                 *)
(***************************************************************************)
UpperCase == <<"A","B","C","D","E","F","G","H","I","J","K","L","M",
               "N","O","P","Q","R","S","T","U","V","W","X","Y","Z">>
LowerCaseL == <<"a","b","c","d","e","f","g","h","i","j","k","l","m",
                "n","o","p","q","r","s","t","u","v","w","x","y","z">>
Digits == {"0","1","2","3","4","5","6","7","8","9"}
\* accented letters of the range À-ÿ used by the model:
\* <<upper, lower, base of upper, base of lower>>
Accented == { <<"É","é","E","e">>, <<"Ô","ô","O","o">>, <<"À","à","A","a">> }
WhiteSpace == {" "}
\* the character U+0060, which the lexer does not accept inside a string
BackTick == "U+0060"

RangeOf(s) == { s[i] : i \in DOMAIN s }
IsAsciiLetter(c) == c \in RangeOf(UpperCase) \cup RangeOf(LowerCaseL)
\* \w of a JavaScript regular expression
IsWordChar(c) == IsAsciiLetter(c) \/ c \in Digits \/ c = "_"
IsAccented(c) == \E a \in Accented : c = a[1] \/ c = a[2]

\* String.prototype.toLowerCase, one character
LowerChar(c) ==
  IF c \in RangeOf(UpperCase)
    THEN LowerCaseL[CHOOSE i \in DOMAIN UpperCase : UpperCase[i] = c]
    ELSE IF \E a \in Accented : c = a[1]
      THEN (CHOOSE a \in Accented : c = a[1])[2]
      ELSE c

toLowerCase(s) == [i \in DOMAIN s |-> LowerChar(s[i])]

\* normalize("NFD") followed by the removal of U+0300..U+036F: an accented
\* letter decomposes into its base letter and a combining mark, and the mark
\* is removed
StripDiacriticChar(c) ==
  IF \E a \in Accented : c = a[1]
    THEN (CHOOSE a \in Accented : c = a[1])[3]
    ELSE IF \E a \in Accented : c = a[2]
      THEN (CHOOSE a \in Accented : c = a[2])[4]
      ELSE c

\* the removal of the diacritics, were it to leave the text as it is
StripDiacritics_keep(s) == s

StripDiacritics(s) == [i \in DOMAIN s |-> StripDiacriticChar(s[i])]

\* replace(/&/g, "et")
RECURSIVE ReplaceAmp(_)
ReplaceAmp(s) ==
  IF s = <<>> THEN <<>>
  ELSE (IF Head(s) = "&" THEN <<"e","t">> ELSE <<Head(s)>>) \o ReplaceAmp(Tail(s))

\* the longest prefix of whitespace is dropped
RECURSIVE DropLeadingSpace(_)
DropLeadingSpace(s) ==
  IF s # <<>> /\ Head(s) \in WhiteSpace THEN DropLeadingSpace(Tail(s)) ELSE s

\* replace(/\s+/g, "-"): every whitespace run becomes one hyphen
RECURSIVE SpacesToHyphen(_)
SpacesToHyphen(s) ==
  IF s = <<>> THEN <<>>
  ELSE IF Head(s) \in WhiteSpace
    THEN <<"-">> \o SpacesToHyphen(DropLeadingSpace(s))
    ELSE <<Head(s)>> \o SpacesToHyphen(Tail(s))

\* replace(/[^\w-]/g, "")
StripNonWord(s) == SelectSeq(s, LAMBDA c : IsWordChar(c) \/ c = "-")

Reverse(s) == [i \in DOMAIN s |-> s[Len(s) + 1 - i]]
\* String.prototype.trim
Trim(s) == Reverse(DropLeadingSpace(Reverse(DropLeadingSpace(s))))

\* utils.js slugify
slugify(text) ==
  Trim(StripNonWord(SpacesToHyphen(ReplaceAmp(StripDiacritics(toLowerCase(text))))))

(***************************************************************************)
(* The backend's categories (GET /categories) and the values a URL's       *)
(* category parameter is loaded with.                                      *)
(***************************************************************************)
NoName == <<>>
Objets == <<"O","b","j","e","t","s">>
BarCafe == <<"B","a","r"," ","&"," ","C","a","f","é">>
BackendCategories == << [id |-> 1, name |-> Objets], [id |-> 2, name |-> BarCafe] >>
CategoryIds == { BackendCategories[i].id : i \in DOMAIN BackendCategories }

AllSlug == <<"a","l","l">>
\* the page is loaded without a category parameter
InitialURLs == { <<>> }

(***************************************************************************)
(* Works, figures, files.                                                  *)
(***************************************************************************)
\* a work as the list endpoint returns it: category embedded as {id, name}
FetchedWork(i, c) == [id |-> i, category |-> c]

RECURSIVE FetchedListsOfLen(_)
FetchedListsOfLen(n) ==
  IF n = 0 THEN { <<>> }
  ELSE { Append(l, FetchedWork(n, BackendCategories[k])) :
           l \in FetchedListsOfLen(n - 1), k \in DOMAIN BackendCategories }

\* the bodies GET /works answers with: ids 1..n in order
FetchedLists == UNION { FetchedListsOfLen(n) : n \in 0..MaxFetched }

\* a slug that is the slug of no category
UnknownSlug == <<"z">>
\* the category parameter of the URL a visitor loads the page with
VisitorURLs == { <<>>, AllSlug, slugify(Objets), Objets, UnknownSlug }

\* the works the list endpoint may answer with: the category embedded with
\* its name, embedded without a name, or given by categoryId only
WorkShapes(i) ==
  { FetchedWork(i, BackendCategories[k]) : k \in DOMAIN BackendCategories }
    \cup { FetchedWork(i, [id |-> k, name |-> NoName]) : k \in CategoryIds }
    \cup { [id |-> i, categoryId |-> k] : k \in CategoryIds }

RECURSIVE VisitorListsOfLen(_)
VisitorListsOfLen(n) ==
  IF n = 0 THEN { <<>> }
  ELSE { Append(l, w) : l \in VisitorListsOfLen(n - 1), w \in WorkShapes(n) }

VisitorLists == UNION { VisitorListsOfLen(n) : n \in 0..MaxVisitorWorks }

\* utils.js validateImageFile
MAX == 4 * 1024 * 1024
ALLOWED == {"image/jpeg", "image/png"}
\* validateImageFile, were it to test the type only
validateImageFile_typeOnly(file) == file.type \in ALLOWED

validateImageFile(file) ==
  IF file.type \notin ALLOWED THEN FALSE
  ELSE IF file.size > MAX THEN FALSE
  ELSE TRUE

NoFile == [type |-> "", size |-> 0]
\* the files the user picks in the file dialog
PickedFiles == { [type |-> "image/jpeg", size |-> MAX],
                 [type |-> "image/png", size |-> MAX + 1],
                 [type |-> "image/gif", size |-> 1] }

\* the raw values the title field holds after an edit by the user
TitleEdits == { <<>>, <<"A">>, <<" ">>, <<"<","A">> }
\* the maxlength of the title field
TitleMaxLen == 100

\* the two characters of the range À-ÿ (U+00C0..U+00FF) that are not letters
Latin1Signs == {"×", "÷"}

\* dom.js mountTitleField, cleanse: the characters its first replace keeps
\* (ASCII letters, the accented range, digits, space, hyphen and the quotes)
IsTitleChar(c) ==
  \/ IsAsciiLetter(c) \/ IsAccented(c) \/ c \in Latin1Signs
  \/ c \in Digits \/ c \in {" ", "-", "'", "\"", BackTick}

\* the replace of every run of two or more whitespace characters by a space
\* (positions: of every run the first character stays, as the space)
CollapseSpaces(s) ==
  LET marked == [i \in DOMAIN s |->
                   [c |-> s[i],
                    first |-> ~(i > 1 /\ s[i - 1] \in WhiteSpace),
                    run |-> i < Len(s) /\ s[i + 1] \in WhiteSpace]]
      kept == SelectSeq(marked, LAMBDA m : m.c \notin WhiteSpace \/ m.first)
  IN [j \in DOMAIN kept |->
        IF kept[j].c \in WhiteSpace /\ kept[j].run THEN " " ELSE kept[j].c]

Slice(s, n) == IF Len(s) <= n THEN s ELSE SubSeq(s, 1, n)

cleanse(t) ==
  Slice(DropLeadingSpace(CollapseSpaces(SelectSeq(t, IsTitleChar))), TitleMaxLen)

Ids(ws) == { ws[i].id : i \in DOMAIN ws }
Last(s) == s[Len(s)]

(***************************************************************************)
(* Filters and URL.                                                        *)
(***************************************************************************)
\* utils.js getUniqueCategories: the first category of every category id
RECURSIVE getUniqueCategories(_)
getUniqueCategories(ws) ==
  IF ws = <<>> THEN <<>>
  ELSE LET front == getUniqueCategories(SubSeq(ws, 1, Len(ws) - 1))
           c == Last(ws).category
       IN IF \E i \in DOMAIN front : front[i].id = c.id THEN front ELSE Append(front, c)

\* dom.js displayFilters: catById.get(String(id)) || ""
catByIdGet(categories, cid) ==
  IF \E i \in DOMAIN categories : categories[i].id = cid
    THEN categories[CHOOSE i \in DOMAIN categories : categories[i].id = cid].name
    ELSE NoName

\* work.category is an object (the one of a work always carries an id)
HasCategory(work) == "category" \in DOMAIN work
\* work.categoryId != null
HasCategoryId(work) == "categoryId" \in DOMAIN work
\* work.category?.name, NoName when it is absent or empty
CategoryName(work) == IF HasCategory(work) THEN work.category.name ELSE NoName

\* dom.js displayFilters, getWorkCategorySlug: the slug of a name found in
\* catById, null when there is none
SlugOfId(categories, cid) ==
  LET name == catByIdGet(categories, cid)
  IN IF name # NoName THEN [some |-> TRUE, slug |-> slugify(name)]
                      ELSE [some |-> FALSE, slug |-> <<>>]

\* dom.js displayFilters, getWorkCategorySlug: [some |-> FALSE] is null
getWorkCategorySlug(work, categories) ==
  IF CategoryName(work) # NoName
    THEN [some |-> TRUE, slug |-> slugify(work.category.name)]
    ELSE IF HasCategory(work) THEN SlugOfId(categories, work.category.id)
    ELSE IF HasCategoryId(work) THEN SlugOfId(categories, work.categoryId)
    ELSE [some |-> FALSE, slug |-> <<>>]

\* utils.js getCategoryNameFromQueryParam: <<>> is null
getCategoryNameFromQueryParam(param) ==
  IF param = <<>> \/ param = AllSlug THEN <<>> ELSE toLowerCase(param)

\* displayWorks, were it to put each figure before the ones already there
displayWorks_prepend(list) == [i \in DOMAIN list |-> list[Len(list) + 1 - i].id]

\* dom.js displayWorks: the data-id of the figures, in order
displayWorks(list) == [i \in DOMAIN list |-> list[i].id]

\* main.js renderByCurrentFilter: the list handed to displayWorks
renderByCurrentFilter(ws, param) ==
  LET slug == getCategoryNameFromQueryParam(param)
  IN IF slug # <<>> /\ slug # AllSlug
       THEN displayWorks(SelectSeq(ws, LAMBDA w : slugify(CategoryName(w)) = slug))
       ELSE displayWorks(ws)

\* updateURL, were it to delete the parameter whatever the slug
updateURL_delete(categorySlug) == IF categorySlug = <<>> THEN <<>> ELSE <<>>

\* dom.js displayFilters, updateURL: the category parameter of the pushed URL
updateURL(categorySlug) ==
  IF categorySlug = <<>> \/ categorySlug = AllSlug THEN <<>> ELSE categorySlug

\* history.pushState: the entries after the current one are dropped
pushState(h, param) ==
  [entries |-> Append(SubSeq(h.entries, 1, h.index), param), index |-> h.index + 1]

\* the category parameter of the current URL
Location(h) == h.entries[h.index]

\* dom.js displayFilters: the slugs of the buttons, "Tous" first
FilterButtons(categories) ==
  <<AllSlug>> \o [i \in DOMAIN categories |-> slugify(categories[i].name)]

\* dom.js displayFilters, the click handlers: the figures of the main gallery
\* after a click on button i
FilterClickGallery(i, buttons, categories, ws) ==
  IF i = 1 THEN displayWorks(ws)
  ELSE displayWorks(SelectSeq(ws, LAMBDA w :
         LET s == getWorkCategorySlug(w, categories)
         IN s.some /\ s.slug = buttons[i]))

\* dom.js displayFilters, the click handlers: the URL written by button i
FilterClickURL(i, buttons) == IF i = 1 THEN updateURL(<<>>) ELSE updateURL(buttons[i])

\* dom.js displayFilters, createElement("button", ...): a filter button as
\* created, without the class "active" and without the attribute aria-pressed
NewButton == [cls |-> FALSE, ariaPressed |-> ""]

\* setActiveFilter, were it to leave the other buttons as they are
setActiveFilter_keep(activeButton, container) ==
  [container EXCEPT ![activeButton] = [cls |-> TRUE, ariaPressed |-> "true"]]

\* dom.js setActiveFilter: every button of the container loses the class and
\* gets aria-pressed "false", then activeButton gets the class and "true"
setActiveFilter(activeButton, container) ==
  [b \in DOMAIN container |->
     IF b = activeButton THEN [cls |-> TRUE, ariaPressed |-> "true"]
                         ELSE [cls |-> FALSE, ariaPressed |-> "false"]]

\* dom.js displayFilters, lines 438-449: the button clicked at bootstrap
InitialButton(buttons, param) ==
  LET selectedSlug == IF param # <<>> THEN toLowerCase(param) ELSE <<>>
      wanted == IF selectedSlug # <<>> THEN selectedSlug ELSE AllSlug
  IN IF \E i \in DOMAIN buttons : buttons[i] = wanted
       THEN CHOOSE i \in DOMAIN buttons :
              buttons[i] = wanted /\ \A j \in 1..(i - 1) : buttons[j] # wanted
       ELSE 1

(***************************************************************************)
(* Work Store listeners, error messages, modal.                            *)
(***************************************************************************)
\* the listener of work:created, were it to put the new work first
onWorkCreated_unshift(ws, newWork) == <<newWork>> \o ws

\* main.js work:created listener: works.push(newWork)
onWorkCreated(ws, newWork) == Append(ws, newWork)

\* the listener of work:deleted, were it to splice without a count: the work
\* found and every work after it are removed
onWorkDeleted_spliceRest(ws, deletedId) ==
  IF \E i \in DOMAIN ws : ws[i].id = deletedId
    THEN SubSeq(ws, 1, (CHOOSE i \in DOMAIN ws :
                          ws[i].id = deletedId /\ \A j \in 1..(i - 1) : ws[j].id # deletedId) - 1)
    ELSE ws

\* main.js work:deleted listener: findIndex and splice
onWorkDeleted(ws, deletedId) ==
  IF \E i \in DOMAIN ws : ws[i].id = deletedId
    THEN LET idx == CHOOSE i \in DOMAIN ws :
                      ws[i].id = deletedId /\ \A j \in 1..(i - 1) : ws[j].id # deletedId
         IN SubSeq(ws, 1, idx - 1) \o SubSeq(ws, idx + 1, Len(ws))
    ELSE ws

\* the ids of the error paragraphs of dom.js ERR that the model keeps
ErrIds == {"upload", "del", "gallery", "category"}

\* createErrorMessage, were it to append without removing the message
\* already shown under the id
createErrorMessage_append(count) == count + 1

\* dom.js createErrorMessage: the number of paragraphs with the id afterwards
createErrorMessage(count) == (IF count > 0 THEN count - 1 ELSE count) + 1

\* showApiError, were it to show nothing
showApiError_silent(errs, id) == errs

\* dom.js showApiError
showApiError(errs, id) == [errs EXCEPT ![id] = createErrorMessage(@)]

\* dom.js clearErrors: getElementById(id)?.remove() for each id
clearErrors(errs, ids) ==
  [e \in ErrIds |-> IF e \in ids /\ errs[e] > 0 THEN errs[e] - 1 ELSE errs[e]]

\* dom.js createWorkFigure with withDelete: the figure and its delete button
ModalFigure(id) == [id |-> id, disabled |-> FALSE, busy |-> FALSE]

\* finish, were it to drop the busy mark and leave the button disabled
finish_busyOnly(fig) == [fig EXCEPT !.busy = FALSE]

\* dom.js wireModalDeleteDelegation, finish
finish(fig) == [fig EXCEPT !.disabled = FALSE, !.busy = FALSE]

ModalIds(figs) == { figs[i].id : i \in DOMAIN figs }

normalizedWork_raw(newWork, category, selectedCategoryName) == newWork

\* dom.js handleUploadSubmit: normalizedWork
normalizedWork(newWork, category, selectedCategoryName) ==
  [id |-> newWork.id,
   category |-> IF newWork.category.name # NoName
                  THEN newWork.category
                  ELSE [id |-> category, name |-> selectedCategoryName]]

\* dom.js enableUploadFormValidation, updateState: submitBtn.disabled
updateState(file, title, categoryValue) ==
  ~(file # NoFile /\ Trim(title) # <<>> /\ categoryValue # 0)

\* the label of the selected option of the category select
SelectedLabel(sel) ==
  IF \E i \in DOMAIN sel.options : sel.options[i].id = sel.value
    THEN sel.options[CHOOSE i \in DOMAIN sel.options : sel.options[i].id = sel.value].name
    ELSE <<>>

ModalClosed == [shown |-> FALSE, stepOne |-> FALSE, stepTwo |-> FALSE]

\* the header of the form as the page is loaded: the placeholder and the
\* label, no preview, no error, no object URL
NoImage ==
  [tracked |-> FALSE, preview |-> FALSE, error |-> "", previewURL |-> 0,
   live |-> {}, created |-> 0]

\* revokePreviewURLFromInput, were it to forget the URL without revoking it
revokePreviewURLFromInput_forget(img) == [img EXCEPT !.previewURL = 0]

\* dom.js revokePreviewURLFromInput; previewURL 0 is the empty dataset value
revokePreviewURLFromInput(img) ==
  IF img.previewURL # 0
    THEN [img EXCEPT !.live = @ \ {img.previewURL}, !.previewURL = 0]
    ELSE img

\* dom.js resetImagePreview: the URL revoked, the header rebuilt without
\* preview, the image error cleared
resetImagePreview(img) ==
  [revokePreviewURLFromInput(img) EXCEPT !.preview = FALSE, !.error = ""]

\* utils.js validateImageFile: the message of a file that is turned down
imageMessage(file) == IF file.type \notin ALLOWED THEN "extension" ELSE "size"

\* dom.js mountImageField, the change handler followed by validate
changeImage(img, file) ==
  IF ~validateImageFile(file)
    THEN [resetImagePreview(revokePreviewURLFromInput(img)) EXCEPT !.error = imageMessage(file)]
    ELSE LET r == revokePreviewURLFromInput(img)
             url == r.created + 1
         IN [r EXCEPT !.error = "", !.created = url, !.previewURL = url,
                      !.live = @ \cup {url}, !.preview = TRUE]

\* the header is followed only where tracked is set
Tracked(img, next) == IF img.tracked THEN next ELSE img

(***************************************************************************)
(* State.                                                                  *)
(***************************************************************************)
VARIABLES
  pc,            \* "boot": init awaits getWorks; "ready": init ran to its end;
                 \* "failed": init ended in its catch
  token,         \* localStorage "token" (<<>>: none)
  works,         \* main.js init: the works array
  gallery,       \* .gallery: the data-id of its figures, in order
  modalGallery,  \* .modal-gallery-content: its figures with their delete button
  filters,       \* #filters: the data-category-slug of its buttons, in order
  categories,    \* displayFilters' categories (the source of catById)
  active,        \* per filter button: the class "active" and the attribute aria-pressed
  history,       \* the session history: category parameter of every entry
  modal,         \* display of .modal, #step-one, #step-two
  fileInput,     \* #image: the selected file
  titleInput,    \* #title: its value
  categorySelect,\* #category: loaded flag, options (after the empty one), value
  submitDisabled,\* .btn-form-validate: disabled
  errors,        \* number of error paragraphs per id
  creates,       \* POST /works requests in flight
  deletes,       \* DELETE /works/:id requests in flight
  catLoads,      \* GET /categories requests in flight
  nextId,        \* the id the backend gives to the next created work
  events,        \* numbers of work:created / work:deleted notifications emitted, and of
                 \* submit events that returned at the guards of the submit handler
  login,         \* login.html: the two fields, #login-error, the submit button, the
                 \* request in flight and the redirection
  call,          \* a call of a helper of api.js or utils.js: its argument and its outcome
  image          \* #form-group-header and the object URLs: the preview image, the image
                 \* error, #image's dataset.previewURL, the URLs created and those not
                 \* revoked; followed only where tracked is set

vars == <<pc, token, works, gallery, modalGallery, filters, categories, active,
          history, modal, fileInput, titleInput, categorySelect, submitDisabled,
          errors, creates, deletes, catLoads, nextId, events, login, call, image>>

sync == <<works, gallery, modalGallery, events, nextId>>
filterState == <<filters, categories, active, history>>
formFields == <<fileInput, image, titleInput, categorySelect>>
session == <<pc, token, login, call>>

\* no helper is being followed
NoCall == [fn |-> "none"]

\* login.html before any input: empty fields, no message, the button enabled
LoginIdle ==
  [email |-> <<>>, password |-> <<>>, error |-> "", disabled |-> FALSE,
   pending |-> FALSE, replaced |-> FALSE]

\* isLogIn, were it to answer true whatever the storage holds
isLogIn_always == TRUE

\* utils.js isLogIn: !!localStorage.getItem("token")
isLogIn == token # <<>>

Init ==
  /\ pc = "boot"
  /\ token = <<"j","w","t">>   \* an authenticated session
  /\ works = <<>>
  /\ gallery = <<>>
  /\ modalGallery = <<>>
  /\ filters = <<>>
  /\ categories = <<>>
  /\ active = <<>>
  /\ \E u \in InitialURLs : history = [entries |-> <<u>>, index |-> 1]
  /\ modal = ModalClosed
  /\ fileInput = NoFile
  /\ image = NoImage
  /\ titleInput = <<>>
  /\ categorySelect = [loaded |-> FALSE, options |-> <<>>, value |-> 0]
  /\ submitDisabled = FALSE
  /\ errors = [e \in ErrIds |-> 0]
  /\ creates = <<>>
  /\ deletes = {}
  /\ catLoads = 0
  /\ nextId = 1
  /\ events = [created |-> 0, deleted |-> 0, suppressed |-> 0, fromAdd |-> "off"]
  /\ login = LoginIdle
  /\ call = NoCall

\* the same session, observed: events.fromAdd records whether the modal last
\* left Add for Closed ("closed") or not ("no")
FormInit ==
  /\ pc = "boot"
  /\ token = <<"j","w","t">>
  /\ works = <<>>
  /\ gallery = <<>>
  /\ modalGallery = <<>>
  /\ filters = <<>>
  /\ categories = <<>>
  /\ active = <<>>
  /\ \E u \in InitialURLs : history = [entries |-> <<u>>, index |-> 1]
  /\ modal = ModalClosed
  /\ fileInput = NoFile
  /\ image = NoImage
  /\ titleInput = <<>>
  /\ categorySelect = [loaded |-> FALSE, options |-> <<>>, value |-> 0]
  /\ submitDisabled = FALSE
  /\ errors = [e \in ErrIds |-> 0]
  /\ creates = <<>>
  /\ deletes = {}
  /\ catLoads = 0
  /\ nextId = 1
  /\ events = [created |-> 0, deleted |-> 0, suppressed |-> 0, fromAdd |-> "no"]
  /\ login = LoginIdle
  /\ call = NoCall

\* the record of the way the modal last left Add, kept when it is observed
Observe(ev, m, m2) ==
  IF ev.fromAdd = "off" THEN ev
  ELSE IF m.stepTwo /\ ~m2.shown THEN [ev EXCEPT !.fromAdd = "closed"]
  ELSE IF m2.stepTwo THEN [ev EXCEPT !.fromAdd = "no"]
  ELSE ev

\* displayWorks empties the gallery: the figure a pending delete holds a
\* reference to is no longer in the document
Detach(ds) ==
  { [d EXCEPT !.galleryFigure = IF @ = "attached" THEN "detached" ELSE @] : d \in ds }

\* a visitor's session: no token
VisitorInit ==
  /\ pc = "boot"
  /\ token = <<>>
  /\ works = <<>>
  /\ gallery = <<>>
  /\ modalGallery = <<>>
  /\ filters = <<>>
  /\ categories = <<>>
  /\ active = <<>>
  /\ \E u \in VisitorURLs : history = [entries |-> <<u>>, index |-> 1]
  /\ modal = ModalClosed
  /\ fileInput = NoFile
  /\ image = NoImage
  /\ titleInput = <<>>
  /\ categorySelect = [loaded |-> FALSE, options |-> <<>>, value |-> 0]
  /\ submitDisabled = FALSE
  /\ errors = [e \in ErrIds |-> 0]
  /\ creates = <<>>
  /\ deletes = {}
  /\ catLoads = 0
  /\ nextId = 1
  /\ events = [created |-> 0, deleted |-> 0, suppressed |-> 0, fromAdd |-> "off"]
  /\ login = LoginIdle
  /\ call = NoCall

\* getUniqueCategories reads category.id of every work: a TypeError when a
\* work has no category
ThrowsInUnique(fetched) == \E i \in DOMAIN fetched : ~HasCategory(fetched[i])
\* the first category of every id, when every work has one
UniqueOf(fetched) == IF ThrowsInUnique(fetched) THEN <<>> ELSE getUniqueCategories(fetched)
\* displayFilters calls slugify(category.name) for every category: a
\* TypeError when a category has no name
ThrowsInFilters(fetched) ==
  \E i \in DOMAIN UniqueOf(fetched) : UniqueOf(fetched)[i].name = NoName
Throws(fetched) == ThrowsInUnique(fetched) \/ ThrowsInFilters(fetched)
\* the categories displayFilters made a button of before it threw
BeforeThrow(cats) ==
  SubSeq(cats, 1, (CHOOSE i \in DOMAIN cats :
                     cats[i].name = NoName /\ \A j \in 1..(i - 1) : cats[j].name # NoName) - 1)

(***************************************************************************)
(* main.js init, from the answer of getWorks to its end.                   *)
(***************************************************************************)
InitOk(fetched) ==
  /\ pc = "boot"
  /\ ~Throws(fetched)
  /\ LET uniqueCategories == getUniqueCategories(fetched)
         buttons == FilterButtons(uniqueCategories)
         i == InitialButton(buttons, Location(history))
     IN /\ works' = fetched
        /\ modalGallery' = IF isLogIn THEN [k \in DOMAIN fetched |-> ModalFigure(fetched[k].id)]
                                      ELSE <<>>
        /\ submitDisabled' = IF isLogIn THEN updateState(fileInput, titleInput, categorySelect.value)
                                        ELSE submitDisabled
        /\ categories' = uniqueCategories
        /\ filters' = buttons
        /\ active' = setActiveFilter(i, [b \in DOMAIN buttons |-> NewButton])
        /\ history' = pushState(history, FilterClickURL(i, buttons))
        /\ gallery' = FilterClickGallery(i, buttons, uniqueCategories, fetched)
  /\ nextId' = Len(fetched) + 1
  /\ pc' = "ready"
  /\ UNCHANGED <<token, login, call, modal, formFields, errors, creates, deletes, catLoads, events>>

\* getWorks resolved and getUniqueCategories or displayFilters throws: init
\* goes to its catch with the admin interface mounted, the filter bar built
\* up to the category without a name, no button clicked and no listener added
InitThrow(fetched) ==
  /\ pc = "boot"
  /\ Throws(fetched)
  /\ works' = fetched
  /\ modalGallery' = IF isLogIn THEN [k \in DOMAIN fetched |-> ModalFigure(fetched[k].id)]
                                ELSE <<>>
  /\ submitDisabled' = IF isLogIn THEN updateState(fileInput, titleInput, categorySelect.value)
                                  ELSE submitDisabled
  /\ categories' = UniqueOf(fetched)
  /\ filters' = IF ThrowsInUnique(fetched) THEN filters
                ELSE FilterButtons(BeforeThrow(UniqueOf(fetched)))
  /\ active' = IF ThrowsInUnique(fetched) THEN active
               ELSE [b \in DOMAIN FilterButtons(BeforeThrow(UniqueOf(fetched))) |-> NewButton]
  /\ gallery' = <<>>
  /\ errors' = showApiError(errors, "gallery")
  /\ pc' = "failed"
  /\ UNCHANGED <<token, login, call, history, modal, formFields, creates, deletes, catLoads,
                 nextId, events>>

\* getWorks rejects: displayGalleryError
InitFail ==
  /\ pc = "boot"
  /\ gallery' = <<>>
  /\ errors' = showApiError(errors, "gallery")
  /\ pc' = "failed"
  /\ UNCHANGED <<token, login, call, works, modalGallery, filterState, modal, formFields,
                 submitDisabled, creates, deletes, catLoads, nextId, events>>

(***************************************************************************)
(* Filters and history.                                                    *)
(***************************************************************************)
\* the bound on the history of the session at hand
HistBound == IF isLogIn THEN MaxHist ELSE MaxVisitorHist

\* click on filter button i; the overlay of the open modal covers the page
FilterClick(i) ==
  /\ pc = "ready"
  /\ ~modal.shown
  /\ i \in DOMAIN filters
  /\ history.index < HistBound
  /\ active' = setActiveFilter(i, active)
  /\ history' = pushState(history, FilterClickURL(i, filters))
  /\ gallery' = FilterClickGallery(i, filters, categories, works)
  /\ deletes' = Detach(deletes)
  /\ UNCHANGED <<session, works, modalGallery, filters, categories, modal, formFields,
                 submitDisabled, errors, creates, catLoads, nextId, events>>

\* back (-1) or forward (+1) between entries of this document: popstate
PopState(delta) ==
  /\ pc = "ready"
  /\ history.index + delta \in DOMAIN history.entries
  /\ history' = [history EXCEPT !.index = @ + delta]
  /\ gallery' = renderByCurrentFilter(works, Location(history'))
  /\ deletes' = Detach(deletes)
  /\ UNCHANGED <<session, works, modalGallery, filters, categories, active, modal,
                 formFields, submitDisabled, errors, creates, catLoads, nextId, events>>

(***************************************************************************)
(* Modal.  Its handlers are mounted by init in an authenticated session.   *)
(***************************************************************************)
Mounted == pc = "ready" /\ isLogIn

\* dom.js displayModal, onOpen: click on an edit link
OpenModal ==
  /\ Mounted
  /\ ~modal.shown
  /\ modal' = [modal EXCEPT !.shown = TRUE, !.stepOne = TRUE]
  /\ UNCHANGED <<session, sync, filterState, formFields, submitDisabled, errors,
                 creates, deletes, catLoads>>

\* dom.js mountModalNavigation, "add a photo" up to the await of
\* populateCategorySelect; the select is already loaded: the handler runs to
\* its end
AddPhotoLoaded ==
  /\ Mounted
  /\ modal.shown /\ modal.stepOne
  /\ categorySelect.loaded /\ Len(categorySelect.options) + 1 > 1
  /\ modal' = [modal EXCEPT !.stepOne = FALSE, !.stepTwo = TRUE]
  /\ errors' = clearErrors(errors, {"category", "upload"})
  /\ events' = Observe(events, modal, modal')
  /\ UNCHANGED <<session, works, gallery, modalGallery, nextId, filterState, formFields,
                 submitDisabled, creates, deletes, catLoads>>

\* the same click when the select is not loaded: getCategories is awaited
AddPhotoLoad ==
  /\ Mounted
  /\ modal.shown /\ modal.stepOne
  /\ ~(categorySelect.loaded /\ Len(categorySelect.options) + 1 > 1)
  /\ catLoads < MaxCatLoads
  /\ modal' = [modal EXCEPT !.stepOne = FALSE, !.stepTwo = TRUE]
  /\ catLoads' = catLoads + 1
  /\ events' = Observe(events, modal, modal')
  /\ UNCHANGED <<session, works, gallery, modalGallery, nextId, filterState, formFields,
                 submitDisabled, errors, creates, deletes>>

\* dom.js populateCategorySelect after getCategories answered, then the rest
\* of the "add a photo" handler
CatLoadOk ==
  /\ catLoads > 0
  /\ catLoads' = catLoads - 1
  /\ categorySelect' = [loaded |-> TRUE, options |-> BackendCategories, value |-> 0]
  /\ errors' = clearErrors(errors, {"category", "upload"})
  /\ UNCHANGED <<session, sync, filterState, modal, fileInput, image, titleInput,
                 submitDisabled, creates, deletes>>

\* getCategories rejects: populateCategorySelect's catch shows the category
\* error, then the rest of the "add a photo" handler
CatLoadFail ==
  /\ catLoads > 0
  /\ catLoads' = catLoads - 1
  /\ errors' = clearErrors(showApiError(errors, "category"), {"upload"})
  /\ UNCHANGED <<session, sync, filterState, modal, formFields, submitDisabled,
                 creates, deletes>>

\* dom.js mountModalNavigation, "back"
BackClick ==
  /\ Mounted
  /\ modal.shown /\ modal.stepTwo
  /\ modal' = [modal EXCEPT !.stepTwo = FALSE, !.stepOne = TRUE]
  /\ errors' = clearErrors(errors, {"upload", "category"})
  /\ UNCHANGED <<session, sync, filterState, formFields, submitDisabled,
                 creates, deletes, catLoads>>

\* closeModal, were it to hide the modal and leave the two steps as they are
closeModal_keepSteps(m, file, title, sel, errs) ==
  IF m.stepTwo
    THEN [modal |-> [m EXCEPT !.shown = FALSE], file |-> NoFile, title |-> <<>>,
          select |-> [sel EXCEPT !.value = 0],
          errors |-> clearErrors(errs, {"upload", "del", "category", "gallery"})]
    ELSE [modal |-> [m EXCEPT !.shown = FALSE], file |-> file, title |-> title,
          select |-> sel, errors |-> errs]

\* dom.js exitModal, closeModal: what it leaves of the modal, the fields and
\* the errors
closeModal(m, file, title, sel, errs) ==
  IF m.stepTwo
    THEN [modal |-> ModalClosed, file |-> NoFile, title |-> <<>>,
          select |-> [sel EXCEPT !.value = 0],
          errors |-> clearErrors(errs, {"upload", "del", "category", "gallery"})]
    ELSE [modal |-> ModalClosed, file |-> file, title |-> title,
          select |-> sel, errors |-> errs]

\* close icon, click on the overlay, or Escape while the modal is shown
CloseModal ==
  /\ Mounted
  /\ modal.shown
  /\ LET c == closeModal(modal, fileInput, titleInput, categorySelect, errors)
     IN /\ modal' = c.modal
        /\ fileInput' = c.file
        /\ titleInput' = c.title
        /\ categorySelect' = c.select
        /\ errors' = c.errors
  /\ image' = IF modal.stepTwo THEN Tracked(image, resetImagePreview(image)) ELSE image
  /\ events' = Observe(events, modal, modal')
  /\ UNCHANGED <<session, works, gallery, modalGallery, nextId, filterState,
                 submitDisabled, creates, deletes, catLoads>>

(***************************************************************************)
(* Upload form (step two).                                                 *)
(***************************************************************************)
FormVisible == Mounted /\ modal.shown /\ modal.stepTwo

\* change of #image: mountImageField's handlers, then updateState
SelectFile(file) ==
  /\ FormVisible
  /\ fileInput' = IF validateImageFile(file) THEN file ELSE NoFile
  /\ image' = Tracked(image, changeImage(image, file))
  /\ submitDisabled' = updateState(fileInput', titleInput, categorySelect.value)
  /\ UNCHANGED <<session, sync, filterState, modal, titleInput, categorySelect, errors,
                 creates, deletes, catLoads>>

\* input on #title: cleanse, then updateState
TypeTitle(raw) ==
  /\ FormVisible
  /\ titleInput' = cleanse(raw)
  /\ submitDisabled' = updateState(fileInput, titleInput', categorySelect.value)
  /\ UNCHANGED <<session, sync, filterState, modal, fileInput, image, categorySelect, errors,
                 creates, deletes, catLoads>>

\* paste of txt into #title with the selection start..end (offsets into the
\* value): the handler prevents the default insertion and assigns the value
\* itself, so no input event follows and updateState does not run
Paste(txt, start, end, bound) ==
  /\ FormVisible
  /\ start \in 0..Len(titleInput) /\ end \in start..Len(titleInput)
  /\ LET v == Slice(SubSeq(titleInput, 1, start) \o cleanse(txt)
                      \o SubSeq(titleInput, end + 1, Len(titleInput)), TitleMaxLen)
     IN /\ Len(v) <= bound
        /\ titleInput' = v
  /\ UNCHANGED <<session, sync, filterState, modal, fileInput, image, categorySelect,
                 submitDisabled, errors, creates, deletes, catLoads>>

\* a paste that leaves at most MaxTitle characters in the field
PasteTitle(txt, start, end) == Paste(txt, start, end, MaxTitle)

\* change of #category to one of its enabled options, then updateState
ChangeCategory(k) ==
  /\ FormVisible
  /\ k \in DOMAIN categorySelect.options
  /\ categorySelect' = [categorySelect EXCEPT !.value = categorySelect.options[k].id]
  /\ errors' = clearErrors(errors, {"category"})
  /\ submitDisabled' = updateState(fileInput, titleInput, categorySelect'.value)
  /\ UNCHANGED <<session, sync, filterState, modal, fileInput, image, titleInput,
                 creates, deletes, catLoads>>

\* dom.js handleUploadSubmit: the guards before the request
SubmitAllowed(file, title, category) ==
  /\ file # NoFile
  /\ title # <<>>
  /\ category # 0
  /\ validateImageFile(file)

\* submit of #upload-form (submit button, or Enter in a field: both need the
\* submit button enabled), suppressed by the handler's guards
SubmitSuppressed ==
  /\ FormVisible
  /\ ~submitDisabled
  /\ ~SubmitAllowed(fileInput, Trim(titleInput), categorySelect.value)
  /\ events.suppressed < MaxSuppressed
  /\ events' = [events EXCEPT !.suppressed = @ + 1]
  /\ UNCHANGED <<session, works, gallery, modalGallery, nextId, filterState, modal,
                 formFields, submitDisabled, errors, creates, deletes, catLoads>>

\* the same submit up to the await of createWork
Submit ==
  /\ FormVisible
  /\ ~submitDisabled
  /\ SubmitAllowed(fileInput, Trim(titleInput), categorySelect.value)
  /\ nextId + Len(creates) <= MaxId
  /\ submitDisabled' = TRUE
  /\ creates' = Append(creates, [file |-> fileInput, title |-> Trim(titleInput),
                                 category |-> categorySelect.value,
                                 sawDeleted |-> {}])
  /\ UNCHANGED <<session, sync, filterState, modal, formFields, errors, deletes, catLoads>>

RemoveAt(q, k) == SubSeq(q, 1, k - 1) \o SubSeq(q, k + 1, Len(q))

\* the body POST /works answers with: the category embedded with its name,
\* or no category.name at all
CreateResponse(id, category, named) ==
  [id |-> id,
   category |-> IF named THEN [id |-> category, name |-> catByIdGet(BackendCategories, category)]
                         ELSE [id |-> 0, name |-> NoName]]

\* dom.js handleUploadSubmit after createWork resolved: normalizedWork, the
\* two figures, work:created with its listener of main.js (push, then
\* renderByCurrentFilter, which replaces the figures of the main gallery),
\* the click on the close icon, and finally
CreateOk(k, named) ==
  /\ k \in DOMAIN creates
  /\ LET req == creates[k]
         newWork == CreateResponse(nextId, req.category, named)
         selectedCategoryName == Trim(SelectedLabel(categorySelect))
         nw == normalizedWork(newWork, req.category, selectedCategoryName)
         c == closeModal(modal, fileInput, titleInput, categorySelect, errors)
     IN /\ modalGallery' = Append(modalGallery, ModalFigure(nw.id))
        /\ works' = onWorkCreated(works, nw)
        /\ gallery' = renderByCurrentFilter(works', Location(history))
        /\ modal' = c.modal
        /\ fileInput' = c.file
        /\ titleInput' = c.title
        /\ categorySelect' = c.select
        /\ errors' = c.errors
        /\ image' = IF modal.stepTwo THEN Tracked(image, resetImagePreview(image)) ELSE image
        /\ deletes' = { [d EXCEPT !.doneWith = @ \cup {nw.id}] : d \in Detach(deletes) }
  /\ events' = Observe([events EXCEPT !.created = @ + 1], modal, modal')
  /\ creates' = RemoveAt(creates, k)
  /\ nextId' = nextId + 1
  /\ submitDisabled' = FALSE
  /\ UNCHANGED <<session, filterState, catLoads>>

\* createWork rejects: catch, then finally
CreateFail(k) ==
  /\ k \in DOMAIN creates
  /\ errors' = showApiError(errors, "upload")
  /\ submitDisabled' = FALSE
  /\ creates' = RemoveAt(creates, k)
  /\ UNCHANGED <<session, sync, filterState, modal, formFields, deletes, catLoads>>

(***************************************************************************)
(* Delete (step one), delegated on the modal gallery.                      *)
(***************************************************************************)
\* dom.js wireModalDeleteDelegation: click on the delete button of figure k,
\* up to the await of deleteWork
DeleteClick(k) ==
  /\ Mounted
  /\ modal.shown /\ modal.stepOne
  /\ k \in DOMAIN modalGallery
  /\ ~modalGallery[k].disabled
  /\ LET id == modalGallery[k].id
         galleryFigure == IF \E i \in DOMAIN gallery : gallery[i] = id
                            THEN "attached" ELSE "null"
     IN /\ modalGallery' = [modalGallery EXCEPT ![k].disabled = TRUE, ![k].busy = TRUE]
        /\ deletes' = { [d EXCEPT !.doneWith = @ \ {id}] : d \in deletes }
                        \cup { [id |-> id, galleryFigure |-> galleryFigure, doneWith |-> {}] }
  /\ UNCHANGED <<session, works, gallery, events, nextId, filterState, modal, formFields,
                 submitDisabled, errors, creates, catLoads>>

\* the figures of the modal gallery without the figure of the id
RemoveModalFigure(figs, id) == SelectSeq(figs, LAMBDA f : f.id # id)

\* deleteWork resolved: both figures removed, work:deleted with its listener
\* of main.js (splice, then renderByCurrentFilter), finally finish
DeleteOk(d) ==
  /\ d \in deletes
  /\ errors' = clearErrors(errors, {"del"})
  /\ modalGallery' = RemoveModalFigure(modalGallery, d.id)
  /\ works' = onWorkDeleted(works, d.id)
  /\ gallery' = renderByCurrentFilter(works', Location(history))
  /\ events' = [events EXCEPT !.deleted = @ + 1]
  /\ deletes' = Detach(deletes \ {d})
  /\ creates' = [i \in DOMAIN creates |-> [creates[i] EXCEPT !.sawDeleted = @ \cup {d.id}]]
  /\ UNCHANGED <<session, nextId, filterState, modal, formFields, submitDisabled, catLoads>>

\* deleteWork rejects: the delete error, finally finish
DeleteFail(d) ==
  /\ d \in deletes
  /\ errors' = showApiError(errors, "del")
  /\ modalGallery' = [i \in DOMAIN modalGallery |->
                        IF modalGallery[i].id = d.id THEN finish(modalGallery[i])
                                                     ELSE modalGallery[i]]
  /\ deletes' = deletes \ {d}
  /\ UNCHANGED <<session, works, gallery, events, nextId, filterState, modal, formFields,
                 submitDisabled, creates, catLoads>>

(***************************************************************************)
(* Specification.                                                          *)
(***************************************************************************)
Next ==
  \/ \E fetched \in FetchedLists : InitOk(fetched)
  \/ InitFail
  \/ \E i \in 1..(Len(BackendCategories) + 1) : FilterClick(i)
  \/ \E delta \in {-1, 1} : PopState(delta)
  \/ OpenModal
  \/ AddPhotoLoaded
  \/ AddPhotoLoad
  \/ CatLoadOk
  \/ CatLoadFail
  \/ BackClick
  \/ CloseModal
  \/ \E file \in PickedFiles : SelectFile(file)
  \/ \E raw \in TitleEdits : TypeTitle(raw)
  \/ \E txt \in TitleEdits, start \in 0..MaxTitle, end \in 0..MaxTitle :
       PasteTitle(txt, start, end)
  \/ \E k \in DOMAIN BackendCategories : ChangeCategory(k)
  \/ SubmitSuppressed
  \/ Submit
  \/ \E k \in 1..MaxId, named \in BOOLEAN : CreateOk(k, named)
  \/ \E k \in 1..MaxId : CreateFail(k)
  \/ \E k \in 1..MaxId : DeleteClick(k)
  \/ \E d \in deletes : DeleteOk(d)
  \/ \E d \in deletes : DeleteFail(d)

Spec == Init /\ [][Next]_vars

\* the handlers of the modal and of the upload form, observed
FormNext ==
  \/ \E fetched \in FetchedLists : InitOk(fetched)
  \/ OpenModal
  \/ AddPhotoLoaded
  \/ AddPhotoLoad
  \/ CatLoadOk
  \/ CatLoadFail
  \/ BackClick
  \/ CloseModal
  \/ \E file \in PickedFiles : SelectFile(file)
  \/ \E raw \in TitleEdits : TypeTitle(raw)
  \/ \E k \in DOMAIN BackendCategories : ChangeCategory(k)
  \/ Submit
  \/ \E k \in 1..MaxId, named \in BOOLEAN : CreateOk(k, named)
  \/ \E k \in 1..MaxId : CreateFail(k)

FormSpec == FormInit /\ [][FormNext]_vars

\* a session of either kind: a token is in the storage at bootstrap, or none
SessionInit ==
  /\ pc = "boot"
  /\ token \in {<<>>, <<"j","w","t">>}
  /\ works = <<>>
  /\ gallery = <<>>
  /\ modalGallery = <<>>
  /\ filters = <<>>
  /\ categories = <<>>
  /\ active = <<>>
  /\ \E u \in InitialURLs : history = [entries |-> <<u>>, index |-> 1]
  /\ modal = ModalClosed
  /\ fileInput = NoFile
  /\ image = NoImage
  /\ titleInput = <<>>
  /\ categorySelect = [loaded |-> FALSE, options |-> <<>>, value |-> 0]
  /\ submitDisabled = FALSE
  /\ errors = [e \in ErrIds |-> 0]
  /\ creates = <<>>
  /\ deletes = {}
  /\ catLoads = 0
  /\ nextId = 1
  /\ events = [created |-> 0, deleted |-> 0, suppressed |-> 0, fromAdd |-> "off"]
  /\ login = LoginIdle
  /\ call = NoCall

\* the UI events and the answers of the API, in a session of either kind
SessionNext ==
  \/ \E fetched \in FetchedLists : InitOk(fetched)
  \/ InitFail
  \/ \E i \in 1..(Len(BackendCategories) + 1) : FilterClick(i)
  \/ \E delta \in {-1, 1} : PopState(delta)
  \/ OpenModal
  \/ AddPhotoLoaded
  \/ AddPhotoLoad
  \/ CatLoadOk
  \/ CatLoadFail
  \/ BackClick
  \/ CloseModal
  \/ \E file \in PickedFiles : SelectFile(file)
  \/ \E raw \in TitleEdits : TypeTitle(raw)
  \/ \E k \in DOMAIN BackendCategories : ChangeCategory(k)
  \/ Submit
  \/ \E k \in 1..MaxId, named \in BOOLEAN : CreateOk(k, named)
  \/ \E k \in 1..MaxId : CreateFail(k)
  \/ \E k \in 1..MaxId : DeleteClick(k)
  \/ \E d \in deletes : DeleteOk(d)
  \/ \E d \in deletes : DeleteFail(d)

SessionSpec == SessionInit /\ [][SessionNext]_vars

\* a visitor's session: the modal is not mounted
VisitorNext ==
  \/ \E fetched \in VisitorLists : InitOk(fetched)
  \/ \E fetched \in VisitorLists : InitThrow(fetched)
  \/ InitFail
  \/ \E i \in 1..(Len(BackendCategories) + 1) : FilterClick(i)
  \/ \E delta \in {-1, 1} : PopState(delta)

VisitorSpec == VisitorInit /\ [][VisitorNext]_vars

(***************************************************************************)
(* Properties.                                                             *)
(***************************************************************************)
FigureIds(figs) == { figs[i] : i \in DOMAIN figs }
NoDuplicates(q) == \A i, j \in DOMAIN q : q[i] = q[j] => i = j
ModalIdSeq(figs) == [i \in DOMAIN figs |-> figs[i].id]

\* the category slug of a work: from the embedded name, else from category.id
\* looked up in the known categories
WorkSlug(w) == getWorkCategorySlug(w, categories)

\* the work matches the category filter of the current URL
MatchesURL(w) ==
  LET slug == getCategoryNameFromQueryParam(Location(history))
  IN slug = <<>> \/ (WorkSlug(w).some /\ WorkSlug(w).slug = slug)

VisibleIds == { works[i].id : i \in { j \in DOMAIN works : MatchesURL(works[j]) } }

\* C1: after bootstrap, whenever no handler runs, the modal gallery shows
\* exactly the ids of the works array and the main gallery exactly the ids of
\* the works whose category slug matches the URL's category filter.
C1_GalleriesMatchStore ==
  pc = "ready" =>
    /\ ModalIds(modalGallery) = Ids(works)
    /\ FigureIds(gallery) = VisibleIds

\* C2: no gallery holds two figures with the same data-id; every work has
\* exactly one figure in the modal gallery and at most one in the main
\* gallery, exactly one when it matches the active filter.
C2_OneFigurePerWork ==
  pc = "ready" =>
    /\ NoDuplicates(gallery)
    /\ NoDuplicates(ModalIdSeq(modalGallery))
    /\ \A i \in DOMAIN works :
         /\ Cardinality({ k \in DOMAIN modalGallery : modalGallery[k].id = works[i].id }) = 1
         /\ Cardinality({ k \in DOMAIN gallery : gallery[k] = works[i].id })
              = IF MatchesURL(works[i]) THEN 1 ELSE 0

\* C3: a successful delete of d removes d's figure from both galleries and d
\* from the works array, and leaves every other figure in both galleries and
\* every other work, in the same order.
C3_DeleteFrame ==
  [][ \A d \in deletes : DeleteOk(d) =>
        /\ d.id \notin FigureIds(gallery')
        /\ d.id \notin ModalIds(modalGallery')
        /\ d.id \notin Ids(works')
        /\ works' = SelectSeq(works, LAMBDA w : w.id # d.id)
        /\ ModalIdSeq(modalGallery') = SelectSeq(ModalIdSeq(modalGallery), LAMBDA x : x # d.id)
        /\ \A x \in FigureIds(gallery) \ {d.id} : x \in FigureIds(gallery')
    ]_vars

\* the label of the option of the category select that carries the id
OptionLabel(cid) == catByIdGet(BackendCategories, cid)

C5_NormalizedCategory ==
  [][ \A k \in DOMAIN creates, named \in BOOLEAN : CreateOk(k, named) =>
        /\ Last(works').category =
             [id |-> creates[k].category, name |-> OptionLabel(creates[k].category)]
        /\ Last(works').category.name # NoName
    ]_vars

\* C6: when a create fails, exactly one upload error is shown (also after
\* repeated failures), the modal and the three fields keep their state, the
\* works array and both galleries are unchanged and nothing is emitted.
C6_CreateFailure ==
  [][ \A k \in DOMAIN creates : CreateFail(k) =>
        /\ errors'["upload"] = 1
        /\ UNCHANGED <<modal, fileInput, titleInput, categorySelect>>
        /\ UNCHANGED <<works, gallery, modalGallery, events>>
    ]_vars

\* C6 witness: a create has failed in the Add step with the form filled, no
\* request is left in flight and one upload error is shown
C6_Witness ==
  /\ errors["upload"] = 1
  /\ creates = <<>>
  /\ events.created = 0
  /\ modal.shown /\ modal.stepTwo
  /\ fileInput # NoFile /\ titleInput # <<>> /\ categorySelect.value # 0

\* C7: when a delete fails, the delete error is shown, the clicked button is
\* enabled again and its figure no longer busy, the figure stays in both
\* galleries, the works array is unchanged and nothing is emitted.
C7_DeleteFailure ==
  [][ \A d \in deletes : DeleteFail(d) =>
        /\ errors'["del"] = 1
        /\ \E i \in DOMAIN modalGallery' :
             /\ modalGallery'[i].id = d.id
             /\ ~modalGallery'[i].disabled
             /\ ~modalGallery'[i].busy
        /\ ModalIdSeq(modalGallery') = ModalIdSeq(modalGallery)
        /\ UNCHANGED <<works, gallery, events>>
        /\ d.id \in Ids(works)
    ]_vars

\* C7 witness: a delete has failed: the delete error is shown, nothing is in
\* flight and the work still has its figure, with its button enabled
C7_Witness ==
  /\ errors["del"] = 1
  /\ deletes = {}
  /\ events.deleted = 0
  /\ works # <<>>
  /\ \A i \in DOMAIN modalGallery : ~modalGallery[i].disabled /\ ~modalGallery[i].busy
  /\ ModalIds(modalGallery) = Ids(works)
  /\ gallery # <<>>

\* what C8 asks of the works array ws, the main gallery gal and the modal
\* gallery mg once the delete of a and the create of b have both succeeded
\* (neither completion changes the URL or the categories of the filters)
BothDone(a, b, ws, gal, mg) ==
  /\ a \notin Ids(ws) /\ b \in Ids(ws)
  /\ a \notin ModalIds(mg) /\ b \in ModalIds(mg)
  /\ a \notin FigureIds(gal)
  /\ \A i \in DOMAIN ws :
       /\ ws[i].id \in ModalIds(mg)
       /\ ws[i].id \in FigureIds(gal) <=> MatchesURL(ws[i])

\* C8: for a delete of A and a create of B in flight at the same time, in
\* either order of completion and with filter clicks or popstate in between:
\* once both have succeeded, both galleries hold B's figure (the main gallery
\* under the current filter) and none for A, every other figure is as the
\* works array asks, and the works array holds B and not A.
C8_ConcurrentDeleteCreate ==
  [][ /\ \A k \in DOMAIN creates, named \in BOOLEAN : CreateOk(k, named) =>
           \A a \in creates[k].sawDeleted :
             BothDone(a, nextId, works', gallery', modalGallery')
      /\ \A d \in deletes : DeleteOk(d) =>
           \A b \in d.doneWith :
             BothDone(d.id, b, works', gallery', modalGallery')
    ]_vars

\* C9: while a create is in flight the submit control is disabled, while a
\* delete of a work is in flight its delete button is disabled; so at most one
\* create, and at most one delete per work, is in flight.
C9_ControlsDisabledInFlight ==
  /\ creates # <<>> => submitDisabled
  /\ Len(creates) <= 1
  /\ \A d \in deletes :
       /\ \E i \in DOMAIN modalGallery : modalGallery[i].id = d.id /\ modalGallery[i].disabled
       /\ \A e \in deletes : e.id = d.id => e = d

\* C10: a submission with no file, an empty trimmed title, no category, or a
\* file of a wrong type or size issues no create request; after a submission
\* with no file the submit control is disabled.
C10_SuppressedSubmission ==
  [][ /\ Len(creates') > Len(creates) =>
           /\ fileInput # NoFile /\ validateImageFile(fileInput)
           /\ Trim(titleInput) # <<>>
           /\ categorySelect.value # 0
      /\ (SubmitSuppressed /\ fileInput = NoFile) => submitDisabled'
    ]_vars

\* the form is valid: a file is selected, the trimmed title is not empty and a
\* category is selected
FormValid == fileInput # NoFile /\ Trim(titleInput) # <<>> /\ categorySelect.value # 0

\* C11: whenever no create request is in flight, the submit control is enabled
\* exactly when the form is valid, after every sequence of file selections,
\* title typing and pasting, category changes, modal close and reopen, and
\* successful or failed submissions.
C11_SubmitTracksValidity ==
  (Mounted /\ creates = <<>>) => (~submitDisabled <=> FormValid)

\* the slug is the slug of a button of a category
KnownSlug(slug) == \E i \in 2..Len(filters) : filters[i] = slug

\* the figures of the works whose resolved category slug is slug, all works
\* when slug is <<>> (no filter)
ResolvedVisible(ws, slug) ==
  IF slug = <<>> THEN displayWorks(ws)
  ELSE displayWorks(SelectSeq(ws, LAMBDA w : WorkSlug(w).some /\ WorkSlug(w).slug = slug))

\* C12: the visible set computed by a click on a filter button, and the one
\* computed from a URL whose category parameter is absent, 'all' or the slug
\* of a known category, holds exactly the works whose resolved category slug
\* (embedded name, else category.id or categoryId looked up) is that slug,
\* and all works for 'all' or no parameter; an unresolved work is in no set
\* but that one.
C12_VisibleSetIsResolved ==
  [][ /\ \A i \in DOMAIN filters : FilterClick(i) =>
           gallery' = ResolvedVisible(works, IF i = 1 THEN <<>> ELSE filters[i])
      /\ \A delta \in {-1, 1} : PopState(delta) =>
           LET slug == getCategoryNameFromQueryParam(Location(history'))
           IN (slug = <<>> \/ KnownSlug(slug)) => gallery' = ResolvedVisible(works, slug)
    ]_vars

\* C13: the set shown by a click on filter button X equals the set derived
\* again from the category parameter the click wrote to the URL.
C13_ClickUrlRoundTrip ==
  [][ \A i \in DOMAIN filters : FilterClick(i) =>
        gallery' = renderByCurrentFilter(works, Location(history'))
    ]_vars

\* the URL's category parameter is neither absent, nor 'all', nor the slug of
\* a known category
UnrecognizedURL ==
  LET slug == getCategoryNameFromQueryParam(Location(history))
  IN slug # <<>> /\ ~KnownSlug(slug)

\* C14: whenever the URL's category parameter is neither absent, nor 'all',
\* nor the slug of a known category, the main gallery shows all works, at
\* bootstrap and after back/forward navigation to such a URL.
C14_UnknownSlugShowsAll ==
  (pc = "ready" /\ UnrecognizedURL) => gallery = displayWorks(works)

C16_PopStateShowsSelection ==
  [][ \A delta \in {-1, 1} : PopState(delta) =>
        /\ gallery' = renderByCurrentFilter(works', Location(history'))
        /\ history'.index >= 2 =>
             \A i \in DOMAIN filters :
               Location(history') = FilterClickURL(i, filters) =>
                 gallery' = FilterClickGallery(i, filters, categories, works')
    ]_vars

C18_ReselectIsNoOp ==
  [][ \A i \in DOMAIN filters : (FilterClick(i) /\ active[i].cls) =>
        /\ active' = active
        /\ Location(history') = Location(history)
        /\ gallery' = gallery
    ]_vars

\* C19: after the bootstrap the works array changes only in the step of a
\* successful create, which appends one element, and in the step of a
\* successful delete, which removes at most one element; filter clicks,
\* popstate, the modal's opening, closing and navigation, field edits, a
\* suppressed submission, a failed create and a failed delete leave it as it is.
C19_WorksFrame ==
  [][ pc # "boot" =>
        /\ \/ works' = works
           \/ /\ \E k \in DOMAIN creates, named \in BOOLEAN : CreateOk(k, named)
              /\ Len(works') = Len(works) + 1
              /\ SubSeq(works', 1, Len(works)) = works
           \/ /\ \E d \in deletes : DeleteOk(d)
              /\ \E i \in DOMAIN works : works' = RemoveAt(works, i)
        /\ works' # works =>
          ~( \/ \E i \in DOMAIN filters : FilterClick(i)
             \/ \E delta \in {-1, 1} : PopState(delta)
             \/ OpenModal \/ AddPhotoLoaded \/ AddPhotoLoad \/ CatLoadOk \/ CatLoadFail
             \/ BackClick \/ CloseModal
             \/ \E file \in PickedFiles : SelectFile(file)
             \/ \E raw \in TitleEdits : TypeTitle(raw)
             \/ \E txt \in TitleEdits, start \in 0..MaxTitle, end \in 0..MaxTitle :
                  PasteTitle(txt, start, end)
             \/ \E k \in DOMAIN BackendCategories : ChangeCategory(k)
             \/ SubmitSuppressed \/ Submit
             \/ \E k \in DOMAIN creates : CreateFail(k)
             \/ \E k \in 1..MaxId : DeleteClick(k)
             \/ \E d \in deletes : DeleteFail(d) )
    ]_vars

\* C19 witness: after the bootstrap a create and a delete have both succeeded
\* and the works array holds a work created in the session
C19_Witness ==
  /\ pc = "ready"
  /\ events.created >= 1 /\ events.deleted >= 1
  /\ \E i \in DOMAIN works : works[i].id > MaxFetched

\* the works that work:created can carry in the state at hand: the answers of
\* POST /works as handleUploadSubmit normalizes them
CreatedWorks ==
  UNION { { normalizedWork(CreateResponse(nextId, c, named), c, label) :
              named \in BOOLEAN, label \in {NoName, catByIdGet(BackendCategories, c)} } :
          c \in CategoryIds }

\* C20: in every state after the bootstrap, for every work w whose id is not
\* in the works array, the work:created listener run on w followed by the
\* work:deleted listener run on w.id leaves the works array as it was,
\* element for element, and the main gallery with the figures it showed
\* before.
C20_AppendThenRemove ==
  pc = "ready" =>
    \A w \in CreatedWorks :
      w.id \notin Ids(works) =>
        LET appended == onWorkCreated(works, w)
            removed == onWorkDeleted(appended, w.id)
        IN /\ removed = works
           /\ renderByCurrentFilter(removed, Location(history)) = gallery

\* C21: in every state after the bootstrap, the work:deleted listener run on
\* an id that is not in the works array leaves the works array with its size
\* and elements and the figures of the main gallery as they were (the
\* listener does not touch the modal gallery).
C21_AbsentIdIsNoOp ==
  pc = "ready" =>
    \A deletedId \in (0..nextId) \ Ids(works) :
      /\ onWorkDeleted(works, deletedId) = works
      /\ renderByCurrentFilter(onWorkDeleted(works, deletedId), Location(history)) = gallery

\* a is b with some elements left out, the others in b's order
RECURSIVE IsSubseq(_, _)
IsSubseq(a, b) ==
  IF a = <<>> THEN TRUE
  ELSE IF b = <<>> THEN FALSE
  ELSE IF a[1] = b[1] THEN IsSubseq(Tail(a), Tail(b))
  ELSE IsSubseq(a, Tail(b))

ModalBrowse == [shown |-> TRUE, stepOne |-> TRUE, stepTwo |-> FALSE]
ModalAdd == [shown |-> TRUE, stepOne |-> FALSE, stepTwo |-> TRUE]

FormEmpty(file, title, sel, errs) ==
  /\ file = NoFile
  /\ title = <<>>
  /\ sel.value = 0
  /\ errs["upload"] = 0 /\ errs["category"] = 0

\* C24: a step that takes the modal from Add to Closed (close icon, overlay,
\* Escape, the close after a successful create) leaves no file, an empty
\* title, no category and no upload or category error; and when the modal
\* last left Add for Closed, the step that shows Add again shows that empty
\* form.
C24_AddClosedResetsForm ==
  [][ /\ (modal = ModalAdd /\ modal' = ModalClosed) =>
           FormEmpty(fileInput', titleInput', categorySelect', errors')
      /\ (events.fromAdd = "closed" /\ modal' = ModalAdd) =>
           FormEmpty(fileInput', titleInput', categorySelect', errors')
    ]_vars

\* C25: the admin interface is mounted only when a non-empty token is in the
\* storage at bootstrap; in a session without a token the modal never shows,
\* the modal gallery is never rendered and no create or delete request is
\* ever in flight or answered, whatever the UI events.
C25_AnonymousIssuesNoRequest ==
  /\ Mounted => token # <<>>
  /\ token = <<>> =>
       /\ modal = ModalClosed
       /\ modalGallery = <<>>
       /\ creates = <<>> /\ deletes = {}
       /\ events.created = 0 /\ events.deleted = 0

\* C25 witness: an anonymous session after the bootstrap, works fetched, a
\* filter clicked
C25_Witness ==
  /\ token = <<>>
  /\ pc = "ready"
  /\ works # <<>>
  /\ history.index >= 3

(***************************************************************************)
(* login.html: the submit handler of #login-form.                          *)
(***************************************************************************)
\* the values the user leaves in #email and #password
Emails == { <<>>, <<" ">>, <<"a">>, <<"a","@","b">>, <<" ","A","@","b",".","c">> }
Passwords == { <<>>, <<"p">> }
\* the statuses of a non-2xx answer of POST /users/login
LoginStatuses == {400, 401, 404, 500}
\* the token of the answer, and the string setItem stores for an answer
\* without a token
NewToken == <<"n","e","w">>
Undefined == <<"u","n","d","e","f","i","n","e","d">>

\* everything but the storage and the login page
portfolio == <<sync, filterState, formFields, modal, submitDisabled, errors,
               creates, deletes, catLoads>>

\* login.js emailRegex: /^[^\s@]+@[^\s@]+\.[^\s@]+$/
emailRegex(s) ==
  \E i \in DOMAIN s, j \in DOMAIN s :
    /\ 1 < i /\ i + 1 < j /\ j < Len(s)
    /\ s[i] = "@" /\ s[j] = "."
    /\ \A k \in DOMAIN s \ {i, j} : s[k] \notin WhiteSpace /\ s[k] # "@"

\* the catch of the handler, were it to take 401 alone for wrong credentials
loginMessage_401only(status) == IF status = 401 THEN "login" ELSE "generic"

\* login.js, catch: the key of UI_ERROR_MSG shown for error.status
loginMessage(status) == IF status = 401 \/ status = 400 THEN "login" ELSE "generic"

\* the login page is loaded, a token of an earlier session stored or none
LoginInit ==
  /\ pc = "login"
  /\ token \in {<<>>, <<"j","w","t">>}
  /\ works = <<>>
  /\ gallery = <<>>
  /\ modalGallery = <<>>
  /\ filters = <<>>
  /\ categories = <<>>
  /\ active = <<>>
  /\ history = [entries |-> <<<<>>>>, index |-> 1]
  /\ modal = ModalClosed
  /\ fileInput = NoFile
  /\ image = NoImage
  /\ titleInput = <<>>
  /\ categorySelect = [loaded |-> FALSE, options |-> <<>>, value |-> 0]
  /\ submitDisabled = FALSE
  /\ errors = [e \in ErrIds |-> 0]
  /\ creates = <<>>
  /\ deletes = {}
  /\ catLoads = 0
  /\ nextId = 1
  /\ events = [created |-> 0, deleted |-> 0, suppressed |-> 0, fromAdd |-> "off"]
  /\ login = LoginIdle
  /\ call = NoCall

\* the user edits the two fields
EditLogin(email, password) ==
  /\ pc = "login"
  /\ ~login.replaced
  /\ login' = [login EXCEPT !.email = email, !.password = password]
  /\ UNCHANGED <<pc, token, call, portfolio>>

\* submit of #login-form, up to the await of loginUser or to the return of a
\* client-side rejection
LoginSubmit ==
  /\ pc = "login"
  /\ ~login.replaced
  /\ ~login.disabled
  /\ LET email == toLowerCase(Trim(login.email))
         password == login.password
     IN login' =
          IF email = <<>> \/ password = <<>>
            THEN [login EXCEPT !.error = "form", !.disabled = FALSE]
          ELSE IF ~emailRegex(email)
            THEN [login EXCEPT !.error = "email", !.disabled = FALSE]
          ELSE [login EXCEPT !.error = "", !.disabled = TRUE, !.pending = TRUE]
  /\ UNCHANGED <<pc, token, call, portfolio>>

\* loginUser resolved with a body: setItem, location.replace, finally
LoginOk(stored) ==
  /\ pc = "login"
  /\ login.pending
  /\ token' = stored
  /\ login' = [login EXCEPT !.pending = FALSE, !.replaced = TRUE, !.disabled = FALSE]
  /\ UNCHANGED <<pc, call, portfolio>>

\* loginUser resolved without a body (204, or no JSON): data.token throws, the
\* catch finds no status
LoginNoBody ==
  /\ pc = "login"
  /\ login.pending
  /\ login' = [login EXCEPT !.pending = FALSE, !.error = "generic", !.disabled = FALSE]
  /\ UNCHANGED <<pc, token, call, portfolio>>

\* loginUser rejects: a non-2xx status, or 0 for a network error (no status)
LoginFail(status) ==
  /\ pc = "login"
  /\ login.pending
  /\ login' = [login EXCEPT !.pending = FALSE, !.error = loginMessage(status),
                            !.disabled = FALSE]
  /\ UNCHANGED <<pc, token, call, portfolio>>

LoginNext ==
  \/ \E email \in Emails, password \in Passwords : EditLogin(email, password)
  \/ LoginSubmit
  \/ \E stored \in {NewToken, Undefined} : LoginOk(stored)
  \/ LoginNoBody
  \/ \E status \in LoginStatuses \cup {0} : LoginFail(status)

LoginSpec == LoginInit /\ [][LoginNext]_vars

\* C26: on a login submission a 400 or 401 answer shows the message of
\* invalid credentials and every other failure the generic message; the
\* token is written and the page replaced only by a request that succeeded;
\* a failed submission and one rejected before the request (empty field,
\* malformed email) leave the stored token as it was; and the submit button
\* is enabled whenever no request is in flight.
C26_LoginSubmission ==
  [][ /\ \A status \in LoginStatuses \cup {0} : LoginFail(status) =>
           /\ login'.error = (IF status \in {400, 401} THEN "login" ELSE "generic")
           /\ token' = token /\ ~login'.replaced
      /\ LoginNoBody => (login'.error = "generic" /\ token' = token /\ ~login'.replaced)
      /\ (token' # token \/ login'.replaced # login.replaced) =>
           (login.pending /\ \E stored \in {NewToken, Undefined} : LoginOk(stored))
      /\ (LoginSubmit /\ ~login'.pending) =>
           /\ token' = token /\ ~login'.replaced
           /\ login'.error \in {"form", "email"}
           /\ ~emailRegex(toLowerCase(Trim(login.email))) \/ login.password = <<>>
      /\ ~login'.pending => ~login'.disabled
    ]_vars

\* C26 witness: a request answered 400 or 401 has shown the message of
\* invalid credentials over a stored token, the button enabled again
C26_Witness ==
  /\ pc = "login"
  /\ login.error = "login" /\ ~login.pending /\ ~login.disabled
  /\ emailRegex(toLowerCase(Trim(login.email))) /\ login.password # <<>>
  /\ token = <<"j","w","t">>

\* C27: when the initial fetch of the works fails, the main gallery is empty,
\* exactly one gallery error is shown, no filter button and no figure of
\* either gallery is rendered and the works array stays empty, then and
\* ever after.
C27_InitialFetchFailure ==
  [][ /\ InitFail =>
           /\ gallery' = <<>> /\ modalGallery' = <<>> /\ filters' = <<>>
           /\ errors'["gallery"] = 1
           /\ works' = <<>>
      /\ (pc = "failed" /\ works = <<>>) =>
           /\ works' = <<>> /\ gallery' = <<>> /\ modalGallery' = <<>>
           /\ errors'["gallery"] = 1
    ]_vars

\* C27 witness: the initial fetch of an authenticated session has failed
C27_Witness ==
  /\ pc = "failed"
  /\ token # <<>>
  /\ works = <<>> /\ gallery = <<>>
  /\ errors["gallery"] = 1

\* C28: the step of a successful delete leaves no delete error shown, the
\* step of a successful create leaves no upload error shown, and the step of
\* a successful category load leaves no category error shown.
C28_SuccessClearsError ==
  [][ /\ (\E d \in deletes : DeleteOk(d)) => errors'["del"] = 0
      /\ (\E k \in DOMAIN creates, named \in BOOLEAN : CreateOk(k, named)) =>
           errors'["upload"] = 0
      /\ CatLoadOk => errors'["category"] = 0
    ]_vars

responseOk_below400(status) == status \in 200..399

\* api.js fetchData: response.ok
responseOk(status) == status \in 200..299

\* dom.js wireModalDeleteDelegation after the await of deleteWork: try when
\* fetchData returned, catch when it threw
deleteSettled(d, status) == IF responseOk(status) THEN DeleteOk(d) ELSE DeleteFail(d)

\* C30: when a delete request is answered 404, the step that handles the
\* answer leaves no delete error shown and no work or figure of that id in
\* works, the main gallery and the modal gallery.
C30_NotFoundIsBenign ==
  [][ deletes' # deletes => \A d \in deletes :
        deleteSettled(d, 404) =>
          /\ errors'["del"] = 0
          /\ \A i \in DOMAIN works' : works'[i].id # d.id
          /\ \A i \in DOMAIN gallery' : gallery'[i] # d.id
          /\ \A i \in DOMAIN modalGallery' : modalGallery'[i].id # d.id
    ]_vars

(***************************************************************************)
(* Helpers of api.js and utils.js, followed one call at a time: call holds *)
(* the argument and, once the helper has run, its outcome.                 *)
(***************************************************************************)
\* String.prototype.includes
includes(s, part) ==
  \E i \in 0..(Len(s) - Len(part)) : SubSeq(s, i + 1, i + Len(part)) = part

ApplicationJson ==
  <<"a","p","p","l","i","c","a","t","i","o","n","/","j","s","o","n">>
JsonWithCharset ==
  <<"A","p","p","l","i","c","a","t","i","o","n","/","J","S","O","N",";"," ","c","h","a","r","s","e","t","=","u","t","f","-","8">>
TextHtml == <<"t","e","x","t","/","h","t","m","l">>
\* the values of the Content-Type header of an answer; <<>>: no such header
ContentTypes == { <<>>, ApplicationJson, JsonWithCharset, TextHtml }
\* the statuses of an answer
Statuses == {200, 201, 204, 299, 300, 304, 400, 401, 404, 500}
\* what response.json() parses the body of the answer to
Bodies == {"array", "object", "null"}
\* what fetch settles with: a rejection (no answer), or an answer
Responses ==
  { [failed |-> TRUE, status |-> 0, contentType |-> <<>>, body |-> "null"] }
    \cup { [failed |-> FALSE, status |-> st, contentType |-> ct, body |-> b] :
             st \in Statuses, ct \in ContentTypes, b \in Bodies }

\* api.js fetchData from the settling of fetch: what the caller gets.  status
\* is the status property of the error thrown (0: the error has none)
fetchData(response) ==
  IF response.failed
    THEN [kind |-> "throw", error |-> "TypeError", status |-> 0, value |-> "undefined"]
  ELSE IF ~responseOk(response.status)
    THEN [kind |-> "throw", error |-> "Error", status |-> response.status,
          value |-> "undefined"]
  ELSE IF response.status = 204
    THEN [kind |-> "return", error |-> "", status |-> 0, value |-> "undefined"]
  ELSE IF ~includes(toLowerCase(response.contentType), ApplicationJson)
    THEN [kind |-> "return", error |-> "", status |-> 0, value |-> "undefined"]
  ELSE [kind |-> "return", error |-> "", status |-> 0, value |-> response.body]

\* the texts slugify is called with
SlugChars == {"A", "a", "É", "é", " ", "&", "-", "_", "1", "!"}
MaxSlugText == 2
SlugTexts == UNION { [1..n -> SlugChars] : n \in 0..MaxSlugText }

\* a helper is about to be called
HelperInit ==
  /\ pc = "helper"
  /\ token = <<>>
  /\ works = <<>>
  /\ gallery = <<>>
  /\ modalGallery = <<>>
  /\ filters = <<>>
  /\ categories = <<>>
  /\ active = <<>>
  /\ history = [entries |-> <<<<>>>>, index |-> 1]
  /\ modal = ModalClosed
  /\ fileInput = NoFile
  /\ image = NoImage
  /\ titleInput = <<>>
  /\ categorySelect = [loaded |-> FALSE, options |-> <<>>, value |-> 0]
  /\ submitDisabled = FALSE
  /\ errors = [e \in ErrIds |-> 0]
  /\ creates = <<>>
  /\ deletes = {}
  /\ catLoads = 0
  /\ nextId = 1
  /\ events = [created |-> 0, deleted |-> 0, suppressed |-> 0, fromAdd |-> "off"]
  /\ login = LoginIdle
  /\ \/ \E response \in Responses :
          call = [fn |-> "fetchData", done |-> FALSE, arg |-> response]
     \/ \E text \in SlugTexts :
          call = [fn |-> "slugify", done |-> FALSE, arg |-> text]

\* fetchData runs from the settling of fetch to its return or throw
CallFetchData ==
  /\ pc = "helper"
  /\ call.fn = "fetchData" /\ ~call.done
  /\ call' = [fn |-> "fetchData", done |-> TRUE, arg |-> call.arg,
              out |-> fetchData(call.arg)]
  /\ UNCHANGED <<pc, token, login, portfolio>>

\* slugify runs
CallSlugify ==
  /\ pc = "helper"
  /\ call.fn = "slugify" /\ ~call.done
  /\ call' = [fn |-> "slugify", done |-> TRUE, arg |-> call.arg,
              out |-> slugify(call.arg)]
  /\ UNCHANGED <<pc, token, login, portfolio>>

HelperNext ==
  \/ CallFetchData
  \/ CallSlugify

HelperSpec == HelperInit /\ [][HelperNext]_vars

\* C31: for every answer, fetchData throws an error carrying the status
\* when the status is outside 200..299, returns undefined for 204, returns
\* the parsed body for any other 2xx whose Content-Type declares JSON and
\* undefined for one that does not; a rejection of fetch reaches the caller
\* as a throw.
C31_OutcomeClassification ==
  (call.fn = "fetchData" /\ call.done) =>
    LET r == call.arg
        out == call.out
        declaresJson == r.contentType \in {ApplicationJson, JsonWithCharset}
    IN /\ r.failed => out.kind = "throw"
       /\ (~r.failed /\ r.status \notin 200..299) =>
            out.kind = "throw" /\ out.status = r.status
       /\ (~r.failed /\ r.status = 204) =>
            out.kind = "return" /\ out.value = "undefined"
       /\ (~r.failed /\ r.status \in 200..299 /\ r.status # 204 /\ declaresJson) =>
            out.kind = "return" /\ out.value = r.body
       /\ (~r.failed /\ r.status \in 200..299 /\ r.status # 204 /\ ~declaresJson) =>
            out.kind = "return" /\ out.value = "undefined"

C31_Witness ==
  /\ call.fn = "fetchData" /\ call.done
  /\ call.arg.status = 201 /\ call.arg.contentType = JsonWithCharset
  /\ call.out.kind = "return" /\ call.out.value = "object"

(***************************************************************************)
(* The fields of the upload form, followed key by key: the modal is in its *)
(* step two with the categories loaded.                                    *)
(***************************************************************************)
\* characters of the title a session of typing may leave in the field
MaxTyped == 3
\* the keys the user presses in the title field
TitleKeys == {"A", "é", " ", "-", "<", "×"}
\* a text longer than the field's maxlength
LongText == [i \in 1..(TitleMaxLen + 1) |-> "A"]
\* the texts the clipboard holds
ClipboardTexts == { <<"B", " ">>, <<"<">>, <<" ", " ">>, LongText }

\* dom.js mountTitleField, ALLOWED: the keys the keypress handler lets through
ALLOWED_key(key) == IsTitleChar(key) \/ key \in WhiteSpace

\* the value of a field after the default action of a key pressed at caret
InsertAt(value, caret, key) ==
  SubSeq(value, 1, caret) \o <<key>> \o SubSeq(value, caret + 1, Len(value))

\* init ran to its end on an empty list of works, the modal was opened,
\* "add a photo" clicked and the categories loaded
FieldInit ==
  /\ pc = "ready"
  /\ token = <<"j","w","t">>
  /\ works = <<>>
  /\ gallery = <<>>
  /\ modalGallery = <<>>
  /\ filters = FilterButtons(<<>>)
  /\ categories = <<>>
  /\ active = setActiveFilter(1, <<NewButton>>)
  /\ history = pushState([entries |-> <<<<>>>>, index |-> 1], <<>>)
  /\ modal = [shown |-> TRUE, stepOne |-> FALSE, stepTwo |-> TRUE]
  /\ fileInput = NoFile
  /\ image = [NoImage EXCEPT !.tracked = TRUE]
  /\ titleInput = <<>>
  /\ categorySelect = [loaded |-> TRUE, options |-> BackendCategories, value |-> 0]
  /\ submitDisabled = updateState(NoFile, <<>>, 0)
  /\ errors = [e \in ErrIds |-> 0]
  /\ creates = <<>>
  /\ deletes = {}
  /\ catLoads = 0
  /\ nextId = 1
  /\ events = [created |-> 0, deleted |-> 0, suppressed |-> 0, fromAdd |-> "off"]
  /\ login = LoginIdle
  /\ call = NoCall

FieldNext ==
  \/ \E key \in TitleKeys, caret \in 0..Len(titleInput) :
       /\ ALLOWED_key(key)
       /\ Len(titleInput) < MaxTyped
       /\ TypeTitle(InsertAt(titleInput, caret, key))
  \/ \E k \in DOMAIN titleInput :
       /\ Len(titleInput) <= MaxTyped
       /\ TypeTitle(RemoveAt(titleInput, k))
  \/ \E txt \in ClipboardTexts, start \in 0..Len(titleInput), end \in 0..Len(titleInput) :
       /\ Len(titleInput) <= MaxTyped
       /\ Paste(txt, start, end, IF txt = LongText THEN TitleMaxLen ELSE MaxTyped)

FieldSpec == FieldInit /\ [][FieldNext]_vars

\* the characters the title may hold: letters, accented ones included,
\* digits, space, hyphen, apostrophe, double quote, backtick
AllowListed(c) ==
  \/ IsAsciiLetter(c) \/ IsAccented(c) \/ c \in Digits
  \/ c \in {" ", "-", "'", "\"", BackTick}

\* C32: after any sequence of typing and pastes the value of the title
\* field holds allow-listed characters only, is at most 100 characters long,
\* does not start with whitespace and has no two whitespace characters in a
\* row; the typed text Chair<script> is cleansed to Chairscript.
C32_TitleValue ==
  /\ \A i \in DOMAIN titleInput : AllowListed(titleInput[i])
  /\ Len(titleInput) <= 100
  /\ titleInput # <<>> => titleInput[1] \notin WhiteSpace
  /\ \A i \in 1..(Len(titleInput) - 1) :
       ~(titleInput[i] \in WhiteSpace /\ titleInput[i + 1] \in WhiteSpace)
  /\ cleanse(<<"C","h","a","i","r","<","s","c","r","i","p","t",">">>)
       = <<"C","h","a","i","r","s","c","r","i","p","t">>

(***************************************************************************)
(* The image field of the upload form with its preview and object URLs,    *)
(* through submissions and closes of the modal.                            *)
(***************************************************************************)
\* object URLs created in a session
MaxURLs == 3

ImageNext ==
  \/ OpenModal
  \/ AddPhotoLoaded
  \/ BackClick
  \/ CloseModal
  \/ \E file \in PickedFiles : image.created < MaxURLs /\ SelectFile(file)
  \/ \E raw \in TitleEdits : TypeTitle(raw)
  \/ \E k \in 1..Len(BackendCategories) : ChangeCategory(k)
  \/ Submit
  \/ \E k \in DOMAIN creates, named \in BOOLEAN : CreateOk(k, named)
  \/ \E k \in DOMAIN creates : CreateFail(k)

ImageSpec == FieldInit /\ [][ImageNext]_vars

\* C33: the selection of a file of a type other than image/jpeg and
\* image/png, or of more than 4*1024*1024 bytes, leaves the file input
\* empty, no preview, an image error shown and the submit button disabled;
\* the selection of a file of an accepted type of exactly 4*1024*1024 bytes
\* is kept; and no create request in flight carries a file of another type
\* or above the ceiling.
C33_InvalidFileRejected ==
  [][ /\ fileInput' # fileInput \/ image' # image \/ submitDisabled' # submitDisabled =>
           \A file \in PickedFiles :
             SelectFile(file) =>
               IF file.type \notin {"image/jpeg", "image/png"} \/ file.size > 4 * 1024 * 1024
                 THEN /\ fileInput' = NoFile
                      /\ ~image'.preview
                      /\ image'.error # ""
                      /\ submitDisabled'
                 ELSE fileInput' = file /\ image'.preview /\ image'.error = ""
      /\ \A k \in DOMAIN creates' :
           /\ creates'[k].file.type \in {"image/jpeg", "image/png"}
           /\ creates'[k].file.size <= 4 * 1024 * 1024
    ]_vars

C33_Witness ==
  /\ fileInput = NoFile /\ image.error = "size" /\ ~image.preview /\ submitDisabled
  /\ image.created >= 1
  /\ creates # <<>> /\ creates[1].file.size = 4 * 1024 * 1024

\* C34: at most one object URL is not revoked at any time; the selection of
\* a file creates a URL only after every URL created before it is revoked;
\* and once the form has been reset (the modal left step two for closed) no
\* URL is left un-revoked.
C34_OnePreviewURL ==
  [][ /\ Cardinality(image'.live) <= 1
      /\ image'.created # image.created => image'.live = {image'.created}
      /\ (modal.stepTwo /\ ~modal'.shown) => image'.live = {}
    ]_vars

C34_Witness ==
  /\ image.created = 3 /\ image.live = {} /\ ~modal.shown
  /\ works # <<>>

\* String.prototype.toUpperCase, one character
UpperChar(c) ==
  IF c \in RangeOf(LowerCaseL)
    THEN UpperCase[CHOOSE i \in DOMAIN LowerCaseL : LowerCaseL[i] = c]
    ELSE IF \E a \in Accented : c = a[2]
      THEN (CHOOSE a \in Accented : c = a[2])[1]
      ELSE c

\* the base letter of an accented letter, the character itself otherwise
BaseChar(c) ==
  IF \E a \in Accented : c = a[1] THEN (CHOOSE a \in Accented : c = a[1])[3]
  ELSE IF \E a \in Accented : c = a[2] THEN (CHOOSE a \in Accented : c = a[2])[4]
  ELSE c

C36_ActiveFollowsURL ==
  pc = "ready" =>
    \E i \in DOMAIN filters :
      /\ active[i].cls
      /\ IF Location(history) = <<>> THEN i = 1
                                     ELSE filters[i] = toLowerCase(Location(history))

\* C37: the step of a successful delete leaves no work and no figure of the
\* deleted id, and an id the backend has handed out that has neither work nor
\* figure gets none in any later step; a click on 'Tous', or on the button of
\* the category of a work of the works array, shows the figure of that work
\* in the main gallery.
C37_DeletedStaysGoneCreatedShows ==
  [][ /\ deletes' # deletes => \A d \in deletes :
           DeleteOk(d) =>
             d.id \notin Ids(works') \cup RangeOf(gallery') \cup ModalIds(modalGallery')
      /\ \A id \in 1..(nextId - 1) :
           id \notin Ids(works) \cup RangeOf(gallery) \cup ModalIds(modalGallery) =>
             id \notin Ids(works') \cup RangeOf(gallery') \cup ModalIds(modalGallery')
      /\ history' # history => \A i \in DOMAIN filters :
           FilterClick(i) =>
             \A k \in DOMAIN works :
               (i = 1 \/ filters[i] = slugify(catByIdGet(BackendCategories, works[k].category.id)))
                 => works[k].id \in RangeOf(gallery')
    ]_vars

\* C38: the work a successful create appends to the works array carries the
\* category id sent in the request and the name of the option of that id,
\* whatever happened to the select while the request was in flight.
C38_WorkReflectsRequest ==
  [][ Len(creates') < Len(creates) => \A k \in DOMAIN creates, named \in BOOLEAN :
        CreateOk(k, named) =>
          LET stored == works'[Len(works')]
          IN /\ stored.category.id = creates[k].category
             /\ stored.category.name = catByIdGet(categorySelect.options, creates[k].category)
             /\ stored.category.name # NoName
    ]_vars

\* C39: once the filter bar is rendered, every work of the works array has
\* a filter button whose slug is the slug of the work's category, creates in
\* a category without work at bootstrap included.
C39_EveryWorkHasButton ==
  pc = "ready" =>
    \A k \in DOMAIN works :
      \E i \in DOMAIN filters :
        filters[i] = slugify(catByIdGet(BackendCategories, works[k].category.id))

\* C40: the bootstrap leaves the session history and the URL as the page was
\* loaded, and the entries of the history change only in the step of a
\* click on a filter button.
C40_OnlyClicksPush ==
  [][ /\ (pc = "boot" /\ pc' = "ready") => history' = history
      /\ history'.entries # history.entries =>
           \E i \in DOMAIN filters : FilterClick(i)
    ]_vars
====
